---- MODULE Spec2Model ----
(***************************************************************************)
(* The tool-augmented chat turn of app.py (Streamlit front end): the       *)
(* session history, the tool registry built at start-up, the script run    *)
(* main() and the steps of process_user_message.  The language model and   *)
(* the tools are external: what they return or raise is chosen by \E.      *)
(* SpecStart begins a session before initialize_app; SpecServer calls the  *)
(* functions _as_number and divide of server.py and roll_dice of main.py;  *)
(* SpecClient is a run of the CLI client client1.main.                     *)
(***************************************************************************)
EXTENDS Integers, Sequences, FiniteSets, TLC

(* ------------------------------ bounds -------------------------------- *)

\* Turns (chat inputs) of one session.
MaxTurns == 2

\* Tool calls the model requests in one session, over all its responses.
MaxToolCalls == 2

\* The largest number of rolls roll_dice is asked for.
MaxRolls == 3

(* ------------------------- values of the model ------------------------ *)

SYSTEM_PROMPT ==
    "You have access to tools. When you choose to call a tool, do not narrate status updates. After tools run, return only a concise final answer."

UserTexts == {"What is 25 + 17?"}

\* msg.content of a model response: a text, the empty text, or None.
None == "<None>"
ReplyContents == {"42", "", None}

\* The content of a response that carries tool calls, and of the final reply.
CallContents == {""}
FinalContents == {"42", None}

\* A Python dict value and a Python str value, told apart by isinstance.
Map(s) == [t |-> "map", v |-> s]
Str(s) == [t |-> "str", v |-> s]
Lst(s) == [t |-> "list", v |-> s]

EmptyMap == Map("")

\* The args a tool-call request carries as a rule: a mapping.
MapArgs == {Map("a=25,b=17")}

\* The args some backends send instead: a string (empty, the JSON text of a
\* mapping, the JSON text of a list, or no JSON at all).
StrArgs == {Str(""), Str("{a:25,b:17}"), Str("[25,17]"), Str("oops")}

\* Tool names a request may carry; "add" is served, "nope" is not.
RequestNames == {"add", "nope"}

\* The id the model gives the k-th call of a response.
CallId(k) == CASE k = 1 -> "c1" [] k = 2 -> "c2" [] k = 3 -> "c3" [] OTHER -> "c4"

\* A request is a dict: its keys are the DOMAIN; a key may be missing.
RequestsAt(k, A) ==
    { [name |-> n, args |-> a, id |-> CallId(k)] : n \in RequestNames, a \in A }
    \cup { [args |-> a, id |-> CallId(k)] : a \in A }
    \cup { [name |-> n, args |-> a] : n \in RequestNames, a \in A }
    \cup { [args |-> a] : a \in A }

\* The sequences of n requests with args in A.
RECURSIVE CallSeqs(_, _)
CallSeqs(n, A) ==
    IF n = 0 THEN { <<>> }
    ELSE { Append(s, r) : s \in CallSeqs(n - 1, A), r \in RequestsAt(n, A) }

\* A response of the tool-bound model that carries the calls s.
CallResponse(c, s) == [type |-> "AI", content |-> c, tool_calls |-> s]

\* The responses the tool-bound model may return: a reply, or up to n calls
\* with args in A.
FirstResponses(n, A) ==
    { CallResponse(c, <<>>) : c \in ReplyContents }
    \cup { CallResponse(c, s) :
            c \in CallContents, s \in UNION { CallSeqs(m, A) : m \in 1..n } }

\* The responses of the model without tools bound: text only.
FinalResponses ==
    { [type |-> "AI", content |-> c, tool_calls |-> <<>>] : c \in FinalContents }

\* What a tool invocation may do: return a value (serialisable or not) or
\* raise (a KeyError, or any other Exception).
ToolOutcomes ==
    { [t |-> "ret", v |-> "42"], [t |-> "ret", v |-> "<object>"],
      [t |-> "raise", v |-> "KeyError"], [t |-> "raise", v |-> "RuntimeError"] }

(* ------------------------------ messages ------------------------------ *)

SystemMessage(c) == [type |-> "System", content |-> c]
HumanMessage(c) == [type |-> "Human", content |-> c]
AIMessage(c) == [type |-> "AI", content |-> c, tool_calls |-> <<>>]
\* A slip: the tool message does not carry the id of its request.
ToolMessageWithoutId(id, c) == [type |-> "Tool", tool_call_id |-> "", content |-> c]

ToolMessage(id, c) == [type |-> "Tool", tool_call_id |-> id, content |-> c]

\* A slip: the content is used as it is.
KeepContent(c) == c

\* `content or ""`: None and the empty text are falsy.
OrEmpty(c) == IF c = None \/ c = "" THEN "" ELSE c

\* `tc.get("args") or {}`: a missing key, an empty mapping and an empty
\* string are falsy and give the empty mapping.
ArgsOrEmpty(tc) ==
    IF "args" \notin DOMAIN tc THEN EmptyMap
    ELSE IF tc.args.v = "" THEN EmptyMap
    ELSE tc.args

\* json.loads on the strings of the model: the decoded value, or
\* JSONDecodeError.
json_loads(s) ==
    CASE s = "{a:25,b:17}" -> [ok |-> TRUE, value |-> Map("a=25,b=17")]
      [] s = "[25,17]" -> [ok |-> TRUE, value |-> Lst("25,17")]
      [] OTHER -> [ok |-> FALSE]

\* A slip: a string that does not decode is dropped for the empty mapping.
DecodeArgsOrEmpty(args) ==
    IF args.t = "str"
    THEN IF json_loads(args.v).ok THEN json_loads(args.v).value ELSE EmptyMap
    ELSE args

\* Lines 221-225: a string is decoded; when it does not decode it is kept.
DecodeArgs(args) ==
    IF args.t = "str"
    THEN IF json_loads(args.v).ok THEN json_loads(args.v).value ELSE args
    ELSE args

\* json.dumps: the JSON text of a value, or TypeError for an object that is
\* not serialisable.
json_dumps(x) ==
    IF x = [value |-> "<object>"] THEN [ok |-> FALSE]
    ELSE [ok |-> TRUE, text |-> [json |-> x]]

\* f"Tool '{name}' not found"
NotFoundMsg(n) == [kind |-> "not found", tool |-> n]

\* f"Error executing tool '{name}': {str(e)}"
ExecErrorMsg(n, e) == [kind |-> "Error executing tool", tool |-> n, exc |-> e]

\* json.dumps({"error": error_msg})
ErrorContent(m) == [json |-> [error |-> m]]

(* ------------------------------- state -------------------------------- *)

VARIABLES
    history,      \* st.session_state.history
    tool_by_name, \* st.session_state.tool_by_name: name -> tool
    tools,        \* st.session_state.tools: the tools as discovered
    session,      \* the keys set in st.session_state
    request,      \* maths server: the function called and its arguments
    result,       \* maths server: what the call returned or raised
    cli,          \* client1.main: the locals of a run of the CLI client
    pc,           \* where the script run is
    turns,        \* chat inputs handled so far
    first,        \* process_user_message: first
    idx,          \* process_user_message: position of tc in tool_calls
    name,         \* process_user_message: name, [bound |-> FALSE] until assigned
    tool_msgs,    \* process_user_message: tool_msgs
    rendered,     \* positions of history drawn by the last render_chat_history
    shown,        \* messages drawn live during the turn
    h0,           \* history when the turn began
    invoked,      \* tool invocations of the turn: position, name, tool, args
    model_calls,  \* model invocations of the turn
    outcome,      \* how the last turn ended: "None", "Done" or "Failed"
    error         \* the exception the outer handler reported, "" when none

vars == <<history, tool_by_name, tools, session, request, result, cli, pc,
          turns, first, idx, name, tool_msgs, rendered, shown, h0, invoked,
          model_calls, outcome, error>>

Unbound == [bound |-> FALSE]
Bound(n) == [bound |-> TRUE, v |-> n]

\* `first` before line 200 has assigned it.
NoResponse == [type |-> "Unassigned", content |-> "", tool_calls |-> <<>>]

\* The exception a failing model invocation raises.
ModelError == "ModelInvocationError"

(* ------------------- one iteration of the tool loop ------------------- *)

\* What an iteration of `for tc in tool_calls` yields: the messages it
\* appends to tool_msgs, the binding of `name` it leaves, the invocations
\* it made, and the exception that left the loop ("" when none did).
Step(exc, ms, nm, inv) == [raised |-> exc, msgs |-> ms, name |-> nm, calls |-> inv]

NoException == ""

\* Lines 244-246 and 251-253: the handler builds the error message; tc["id"]
\* raises KeyError inside the handler when the key is missing.
ErrorResult(tc, m, nm, inv) ==
    IF "id" \in DOMAIN tc
    THEN Step(NoException, << ToolMessage(tc.id, ErrorContent(m)) >>, nm, inv)
    ELSE Step("KeyError: 'id'", <<>>, nm, inv)

\* Lines 241-246, except KeyError: `name` is read; when it was never
\* assigned the read raises UnboundLocalError inside the handler.
OnKeyError(tc, nm, inv) ==
    IF nm.bound
    THEN ErrorResult(tc, NotFoundMsg(nm.v), nm, inv)
    ELSE Step("UnboundLocalError: name", <<>>, nm, inv)

\* Lines 248-253, except Exception.
OnException(tc, nm, e, inv) == ErrorResult(tc, ExecErrorMsg(nm.v, e), nm, inv)

\* Lines 236-238: ToolMessage(tool_call_id=tc["id"], content=json.dumps(res)),
\* the keyword arguments evaluated left to right.
OnReturn(tc, nm, res, inv) ==
    IF "id" \notin DOMAIN tc THEN OnKeyError(tc, nm, inv)
    ELSE IF ~json_dumps(res).ok THEN OnException(tc, nm, "TypeError", inv)
    ELSE Step(NoException, << ToolMessage(tc.id, json_dumps(res).text) >>, nm, inv)

\* Line 228 and lines 231-234: the call made for the k-th request tc, to the
\* tool the registry holds under its name.
Invocation(tc, k, reg) ==
    [pos |-> k, tool |-> tc.name, impl |-> reg[tc.name],
     args |-> DecodeArgs(ArgsOrEmpty(tc))]

\* Lines 228-234: the registry lookup, then the invocation with outcome out
\* (tool.ainvoke or tool.invoke: either way the tool is called once with args).
Invoke(tc, k, reg, out) ==
    LET nm == Bound(tc.name)
        inv == << Invocation(tc, k, reg) >>
    IN  IF tc.name \notin DOMAIN reg THEN OnKeyError(tc, nm, <<>>)
        ELSE IF out.t = "raise"
             THEN IF out.v = "KeyError" THEN OnKeyError(tc, nm, inv)
                  ELSE OnException(tc, nm, out.v, inv)
             ELSE OnReturn(tc, nm, [value |-> out.v], inv)

\* Lines 217-253: the body of the loop for the k-th request tc, `name`
\* being prev on entry.
HandleCall(tc, k, prev, reg, out) ==
    IF "name" \notin DOMAIN tc THEN OnKeyError(tc, prev, <<>>)
    ELSE Invoke(tc, k, reg, out)

(* --------------------------- render_chat_history ---------------------- *)

\* Lines 174-183: the positions of h that are drawn, in the order of the loop.
RECURSIVE RenderFrom(_, _)
RenderFrom(h, i) ==
    IF i > Len(h) THEN <<>>
    ELSE IF h[i].type = "Human" THEN << i >> \o RenderFrom(h, i + 1)
    ELSE IF h[i].type = "AI"
         THEN IF h[i].tool_calls # <<>> THEN RenderFrom(h, i + 1)
              ELSE << i >> \o RenderFrom(h, i + 1)
    ELSE RenderFrom(h, i + 1)

\* A slip: the check for tool_calls is left out.
RECURSIVE RenderEveryAI(_, _)
RenderEveryAI(h, i) ==
    IF i > Len(h) THEN <<>>
    ELSE IF h[i].type \in {"Human", "AI"} THEN << i >> \o RenderEveryAI(h, i + 1)
    ELSE RenderEveryAI(h, i + 1)

render_every_ai(h) == RenderEveryAI(h, 1)

render_chat_history(h) == RenderFrom(h, 1)

(* ------------------------------- startup ------------------------------ *)

\* A tool as get_tools returns it (line 137): its name and the server that
\* serves it.  Both servers of the repository serve a tool named add
\* (server.py line 65, main.py line 11).
Tool(n, s) == [name |-> n, server |-> s]

Descriptors == { Tool("add", "maths"), Tool("add", "demo") }

\* What get_tools may return: the tools of the enabled servers in some order.
Discoveries ==
    { <<>> } \cup { << t >> : t \in Descriptors }
             \cup { p \in Descriptors \X Descriptors : p[1] # p[2] }

\* A dict without keys.
EmptyDict == [n \in {} |-> n]

\* A slip: a name already in the dict keeps its first tool.
PutIfAbsent(reg, t) ==
    [n \in DOMAIN reg \cup {t.name} |-> IF n \in DOMAIN reg THEN reg[n] ELSE t]

\* reg[t.name] = t
Put(reg, t) ==
    [n \in DOMAIN reg \cup {t.name} |-> IF n = t.name THEN t ELSE reg[n]]

\* Line 139: {t.name: t for t in tools}, the tools taken in order.
RECURSIVE DictByName(_)
DictByName(ts) ==
    IF ts = <<>> THEN EmptyDict
    ELSE Put(DictByName(SubSeq(ts, 1, Len(ts) - 1)), ts[Len(ts)])

\* What initialize_app finds when it runs: the configuration file, the API
\* key in the environment, the servers of the configuration, and what
\* get_tools and bind_tools do.
Environments ==
    [ config : {"missing", "invalid", "loaded"},
      api_key : BOOLEAN,
      servers : {"none", "disabled", "enabled"},
      discovery : [ok : {FALSE}, tools : {<<>>}]
                  \cup [ok : {TRUE}, tools : Discoveries],
      bind : BOOLEAN ]

\* Every key initialize_app sets in st.session_state.
AllKeys ==
    {"llm", "client", "tools", "tool_by_name", "llm_with_tools", "history",
     "initialized"}

\* A slip: the run reports success whatever happened.
StartedRegardless(ok, keys, ts) == [ok |-> TRUE, keys |-> keys, tools |-> ts]

\* What a run of initialize_app returns and leaves in st.session_state.
Started(ok, keys, ts) == [ok |-> ok, keys |-> keys, tools |-> ts]

\* Lines 86-169, env being what the run finds.
initialize_app(env) ==
    IF env.config = "missing" THEN Started(FALSE, {}, <<>>)
    ELSE IF env.config = "invalid" THEN Started(FALSE, {}, <<>>)
    ELSE IF ~env.api_key THEN Started(FALSE, {}, <<>>)
    ELSE IF env.servers = "none" THEN Started(FALSE, {}, <<>>)
    ELSE IF env.servers = "disabled" THEN Started(FALSE, {"llm"}, <<>>)
    ELSE IF ~env.discovery.ok THEN Started(FALSE, {"llm", "client"}, <<>>)
    ELSE IF ~env.bind
         THEN Started(FALSE, {"llm", "client", "tools", "tool_by_name"},
                      env.discovery.tools)
    ELSE Started(TRUE, AllKeys, env.discovery.tools)

\* A slip: main initializes on every script run.
AlwaysInitialize(keys) == TRUE

\* Line 273: "initialized" not in st.session_state
NeedsInitialize(keys) == "initialized" \notin keys

(* ---------------------------- maths server ---------------------------- *)

\* Python values: None, ints, floats, strings and a value of another type.
\* A float is the fraction n/d in lowest terms with d > 0; BigInt is an int
\* beyond the range of a float, such as 10**400.
NoneValue == [t |-> "None"]
Integer(v) == [t |-> "int", v |-> v]
BigInt == [t |-> "bigint"]
String(s) == [t |-> "str", s |-> s]
List == [t |-> "list"]

Abs(n) == IF n < 0 THEN -n ELSE n

RECURSIVE GCD(_, _)
GCD(a, b) == IF b = 0 THEN a ELSE GCD(b, a % b)

Float(n, d) ==
    LET g == GCD(Abs(n), Abs(d))
        s == IF d < 0 THEN -1 ELSE 1
    IN  [t |-> "float", n |-> (s * n) \div g, d |-> (s * d) \div g]

\* float('inf')
Inf == [t |-> "float", n |-> 1, d |-> 0]

\* The strings, ints and floats the functions are called with.
Strings == {"42", "  10.5  ", "0", " -4", "not a number", ""}
Ints == {-3, 0, 2, 10}
Floats == { Float(0, 1), Float(5, 2), Float(-3, 2) }

Inputs ==
    { String(s) : s \in Strings } \cup { Integer(v) : v \in Ints } \cup Floats
        \cup { BigInt, NoneValue, List }

\* A call returns a value or raises.
Returned(v) == [raised |-> "", value |-> v]
Raised(e) == [raised |-> e, value |-> NoneValue]

\* str.strip()
strip(s) ==
    CASE s = "  10.5  " -> "10.5"
      [] s = " -4" -> "-4"
      [] OTHER -> s

\* float(x) of a string (surrounding whitespace is ignored), an int or a float.
float(x) ==
    IF x.t = "str"
    THEN CASE strip(x.s) = "42" -> Returned(Float(42, 1))
           [] strip(x.s) = "10.5" -> Returned(Float(21, 2))
           [] strip(x.s) = "0" -> Returned(Float(0, 1))
           [] strip(x.s) = "-4" -> Returned(Float(-4, 1))
           [] OTHER -> Raised("ValueError")
    ELSE IF x.t = "int" THEN Returned(Float(x.v, 1))
    ELSE IF x.t = "bigint" THEN Raised("OverflowError")
    ELSE IF x.t = "float" THEN Returned(x)
    ELSE Raised("TypeError")

\* A slip: the exception is raised again.
Reraised(e) == Raised(e)

\* server.py lines 59-61: the exception is printed and None returned.
Caught(e) == Returned(NoneValue)

\* server.py lines 48-61; a value that is neither a string nor a number
\* falls off the end of the function.
as_number(x) ==
    IF x.t = "str"
    THEN LET r == float(String(strip(x.s)))
         IN  IF r.raised # "" THEN Caught(r.raised) ELSE r
    ELSE IF x.t \in {"int", "bigint", "float"}
    THEN LET r == float(x)
         IN  IF r.raised # "" THEN Caught(r.raised) ELSE r
    ELSE Returned(NoneValue)

\* x / y
TrueDiv(x, y) ==
    IF x.t # "float" \/ y.t # "float" THEN Raised("TypeError")
    ELSE IF y.n = 0 THEN Raised("ZeroDivisionError")
    ELSE Returned(Float(x.n * y.d, x.d * y.n))

\* A slip: the check for zero is left out.
NeverZero(x) == FALSE

\* server.py line 122: denominator == 0
EqZero(x) == x.t = "float" /\ x.n = 0

\* server.py lines 110-124.
divide(a, b) ==
    LET denominator == as_number(b)
    IN  IF denominator.raised # "" THEN denominator
        ELSE IF EqZero(denominator.value) THEN Returned(Inf)
        ELSE LET numerator == as_number(a)
             IN  IF numerator.raised # "" THEN numerator
                 ELSE TrueDiv(numerator.value, denominator.value)

\* A list of ints.
IntList(s) == [t |-> "ints", v |-> s]

\* len(range(a, b))
RangeLen(a, b) == IF b > a THEN b - a ELSE 0

\* main.py lines 7-8: one random.randint(1, 6) for each member of
\* range(1, rolls); the values drawn are chosen by the caller of the operator.
Draws(rolls) == [1..RangeLen(1, rolls) -> 1..6]
roll_dice(rolls, draws) == Returned(IntList(draws))

\* No call has been made.
NoRequest == [fn |-> "", args |-> <<>>]
NoResult == [raised |-> "", value |-> [t |-> "unset"]]

(* ------------------------- client1.main: the loop --------------------- *)

\* What one iteration of the loop of client1.main leaves: the exception that
\* left the loop ("" when none), the tool messages appended, the locals
\* tool_name and tool_id, and the tool invocation made.
ClientStep(exc, ms, nm, id, inv) ==
    [raised |-> exc, msgs |-> ms, name |-> nm, id |-> id, calls |-> inv]

\* client1.py lines 175-181, except Exception: tool_name and then tool_id
\* are read; reading one that was never assigned raises UnboundLocalError
\* inside the handler, which the outer handler (lines 201-203) raises again.
ClientOnException(nm, id, e, inv) ==
    IF ~nm.bound THEN ClientStep("UnboundLocalError: tool_name", <<>>, nm, id, inv)
    ELSE IF ~id.bound THEN ClientStep("UnboundLocalError: tool_id", <<>>, nm, id, inv)
    ELSE ClientStep(NoException,
                    << ToolMessage(id.v, ErrorContent(ExecErrorMsg(nm.v, e))) >>,
                    nm, id, inv)

\* client1.py line 168 and lines 171-173: the tool is awaited with the args
\* as they came, out being what it does, and its response is serialised.
ClientInvoke(tc, k, reg, out) ==
    LET nm == Bound(tc.name)
        id == Bound(tc.id)
        inv == << [pos |-> k, tool |-> tc.name, impl |-> reg[tc.name],
                   args |-> ArgsOrEmpty(tc)] >>
    IN  IF out.t = "raise" THEN ClientOnException(nm, id, out.v, inv)
        ELSE IF ~json_dumps([value |-> out.v]).ok
             THEN ClientOnException(nm, id, "TypeError", inv)
        ELSE ClientStep(NoException,
                        << ToolMessage(tc.id, json_dumps([value |-> out.v]).text) >>,
                        nm, id, inv)

\* client1.py lines 152-181: the body of the loop for the k-th request tc,
\* tool_name and tool_id being pn and pid on entry.
ClientHandleCall(tc, k, pn, pid, reg, out) ==
    IF "name" \notin DOMAIN tc THEN ClientOnException(pn, pid, "'name'", <<>>)
    ELSE IF "id" \notin DOMAIN tc
         THEN ClientOnException(Bound(tc.name), pid, "'id'", <<>>)
    ELSE IF tc.name \notin DOMAIN reg
         THEN ClientStep(NoException,
                         << ToolMessage(tc.id, ErrorContent(NotFoundMsg(tc.name))) >>,
                         Bound(tc.name), Bound(tc.id), <<>>)
    ELSE ClientInvoke(tc, k, reg, out)

\* The locals of a run of client1.main; ClientOff when the client is not run.
Client(at, resp, k, nm, id, ms, inv, outs, fed, exc) ==
    [pc |-> at, response |-> resp, idx |-> k, tool_name |-> nm, tool_id |-> id,
     tool_messages |-> ms, invoked |-> inv, outs |-> outs, messages |-> fed,
     raised |-> exc]

ClientOff ==
    Client("Off", NoResponse, 1, Unbound, Unbound, <<>>, <<>>, <<>>, <<>>,
           NoException)

(* ------------------------------- actions ------------------------------ *)

\* The state initialize_app leaves when it returns True (lines 137-151).
Init ==
    /\ history = << SystemMessage(SYSTEM_PROMPT) >>
    /\ tools = << Tool("add", "maths") >>
    /\ tool_by_name = DictByName(tools)
    /\ session = AllKeys
    /\ request = NoRequest
    /\ result = NoResult
    /\ cli = ClientOff
    /\ pc = "Idle"
    /\ turns = 0
    /\ first = NoResponse
    /\ idx = 1
    /\ name = Unbound
    /\ tool_msgs = <<>>
    /\ rendered = <<>>
    /\ shown = <<>>
    /\ h0 = << SystemMessage(SYSTEM_PROMPT) >>
    /\ invoked = <<>>
    /\ model_calls = 0
    /\ outcome = "None"
    /\ error = NoException

\* What is drawn live: the role and the text, and the tool_calls of the
\* message whose text it is.
Drawn(role, text, calls) == [role |-> role, text |-> text, tool_calls |-> calls]

\* The tool calls the responses stored in h carry, all together.
RECURSIVE CallsRequested(_)
CallsRequested(h) ==
    IF h = <<>> THEN 0
    ELSE (IF h[1].type = "AI" THEN Len(h[1].tool_calls) ELSE 0) + CallsRequested(Tail(h))

\* A slip: the message is appended twice.
AppendMsgTwice(h, m) == Append(Append(h, m), m)

\* history.append(msg)
AppendMsg(h, m) == Append(h, m)

\* A slip: the last message is left out.
ExtendAllButLast(h, ms) == h \o SubSeq(ms, 1, Len(ms) - 1)

\* history.extend(msgs)
ExtendMsgs(h, ms) == h \o ms

\* A slip: the outer handler takes the last message back.
FailTurnDropLast(h) == SubSeq(h, 1, Len(h) - 1)

\* Lines 264-267: the outer handler reports the error; history is not touched.
FailTurn(h) == h

\* main(), lines 281-285, when the chat input holds no text: the history is
\* rendered and the script run ends.
MainRerun ==
    /\ pc = "Idle"
    /\ rendered' = render_chat_history(history)
    /\ UNCHANGED <<history, tool_by_name, tools, session, request, result, cli,
                   pc, turns, first, idx, name, tool_msgs,
                   shown, h0, invoked, model_calls, outcome, error>>

\* main(), lines 281-288, with a chat input, up to the first model
\* invocation of process_user_message (lines 193-200).
MainSubmit ==
    /\ pc = "Idle"
    /\ turns < MaxTurns
    /\ \E text \in UserTexts :
          /\ shown' = << Drawn("user", text, <<>>) >>
          /\ history' = AppendMsg(history, HumanMessage(text))
    /\ rendered' = render_chat_history(history)
    /\ h0' = history
    /\ turns' = turns + 1
    /\ pc' = "AwaitFirst"
    /\ first' = NoResponse
    /\ idx' = 1
    /\ name' = Unbound
    /\ tool_msgs' = <<>>
    /\ invoked' = <<>>
    /\ model_calls' = 0
    /\ outcome' = "None"
    /\ error' = NoException
    /\ UNCHANGED <<tool_by_name, tools, session, request, result, cli>>

\* Line 200 raises: the outer handler (lines 264-267) ends the turn.
FirstInvokeFails ==
    /\ pc = "AwaitFirst"
    /\ model_calls' = model_calls + 1
    /\ history' = FailTurn(history)
    /\ pc' = "Idle"
    /\ outcome' = "Failed"
    /\ error' = ModelError
    /\ UNCHANGED <<tool_by_name, tools, session, request, result, cli,
                   turns, first, idx, name, tool_msgs, rendered,
                   shown, h0, invoked>>

\* Lines 203-208: what is drawn live when the response carries no tool calls.
ShowFirst(resp) == << Drawn("assistant", OrEmpty(resp.content), resp.tool_calls) >>

\* Lines 200-212: the first response; without tool calls it is the reply,
\* with tool calls it is stored and the tool loop begins.  Over a session the
\* requests carry mappings (string args are covered by SpecTurn), and the
\* model requests at most MaxToolCalls calls in all.
FirstInvokeReturns ==
    /\ pc = "AwaitFirst"
    /\ \E resp \in FirstResponses(MaxToolCalls - CallsRequested(history), MapArgs) :
          /\ first' = resp
          /\ history' = AppendMsg(history, resp)
          /\ IF resp.tool_calls = <<>>
             THEN /\ shown' = shown \o ShowFirst(resp)
                  /\ pc' = "Idle"
                  /\ outcome' = "Done"
             ELSE /\ shown' = shown
                  /\ pc' = "Dispatch"
                  /\ outcome' = "None"
    /\ model_calls' = model_calls + 1
    /\ idx' = 1
    /\ tool_msgs' = <<>>
    /\ UNCHANGED <<tool_by_name, tools, session, request, result, cli,
                   turns, name, rendered, h0, invoked, error>>

\* Lines 216-253: one iteration of the loop; an exception that leaves the
\* loop reaches the outer handler and ends the turn.
DispatchCall ==
    /\ pc = "Dispatch"
    /\ idx <= Len(first.tool_calls)
    /\ \E out \in ToolOutcomes :
          LET r == HandleCall(first.tool_calls[idx], idx, name, tool_by_name, out)
          IN  /\ name' = r.name
              /\ invoked' = invoked \o r.calls
              /\ error' = r.raised
              /\ IF r.raised # NoException
                 THEN /\ pc' = "Idle"
                      /\ outcome' = "Failed"
                      /\ history' = FailTurn(history)
                      /\ UNCHANGED <<idx, tool_msgs>>
                 ELSE /\ tool_msgs' = tool_msgs \o r.msgs
                      /\ idx' = idx + 1
                      /\ UNCHANGED <<pc, outcome, history>>
    /\ UNCHANGED <<tool_by_name, tools, session, request, result, cli,
                   turns, first, rendered, shown, h0, model_calls>>

\* Lines 231-234 when the tool never returns: the script run waits in the
\* invocation, and nothing in the loop bounds the wait.
ToolHangs ==
    /\ pc = "Dispatch"
    /\ idx <= Len(first.tool_calls)
    /\ LET tc == first.tool_calls[idx]
       IN  /\ "name" \in DOMAIN tc
           /\ tc.name \in DOMAIN tool_by_name
           /\ name' = Bound(tc.name)
           /\ invoked' = Append(invoked, Invocation(tc, idx, tool_by_name))
    /\ pc' = "InTool"
    /\ UNCHANGED <<history, tool_by_name, tools, session, request, result, cli,
                   turns, first, idx, tool_msgs, rendered, shown, h0,
                   model_calls, outcome, error>>

\* Line 255: the loop is over; the tool messages join the history.
ExtendHistory ==
    /\ pc = "Dispatch"
    /\ idx > Len(first.tool_calls)
    /\ history' = ExtendMsgs(history, tool_msgs)
    /\ pc' = "AwaitFinal"
    /\ UNCHANGED <<tool_by_name, tools, session, request, result, cli,
                   turns, first, idx, name, tool_msgs, rendered,
                   shown, h0, invoked, model_calls, outcome, error>>

\* Line 258 raises: the outer handler ends the turn.
FinalInvokeFails ==
    /\ pc = "AwaitFinal"
    /\ model_calls' = model_calls + 1
    /\ history' = FailTurn(history)
    /\ pc' = "Idle"
    /\ outcome' = "Failed"
    /\ error' = ModelError
    /\ UNCHANGED <<tool_by_name, tools, session, request, result, cli,
                   turns, first, idx, name, tool_msgs, rendered,
                   shown, h0, invoked>>

\* Lines 258-262: the final reply is drawn and stored as a fresh AIMessage.
FinalInvokeReturns ==
    /\ pc = "AwaitFinal"
    /\ \E final \in FinalResponses :
          /\ shown' = Append(shown, Drawn("assistant", OrEmpty(final.content), <<>>))
          /\ history' = AppendMsg(history, AIMessage(OrEmpty(final.content)))
    /\ model_calls' = model_calls + 1
    /\ pc' = "Idle"
    /\ outcome' = "Done"
    /\ UNCHANGED <<tool_by_name, tools, session, request, result, cli,
                   turns, first, idx, name, tool_msgs, rendered,
                   h0, invoked, error>>

Next ==
    \/ MainRerun
    \/ MainSubmit
    \/ FirstInvokeFails
    \/ FirstInvokeReturns
    \/ DispatchCall
    \/ ToolHangs
    \/ ExtendHistory
    \/ FinalInvokeFails
    \/ FinalInvokeReturns

Spec == Init /\ [][Next]_vars

(* ------------------------- a session from its start ------------------- *)

\* A new browser session: st.session_state holds nothing.
InitStart ==
    /\ history = <<>>
    /\ tools = <<>>
    /\ tool_by_name = EmptyDict
    /\ session = {}
    /\ request = NoRequest
    /\ result = NoResult
    /\ cli = ClientOff
    /\ pc = "Start"
    /\ turns = 0
    /\ first = NoResponse
    /\ idx = 1
    /\ name = Unbound
    /\ tool_msgs = <<>>
    /\ rendered = <<>>
    /\ shown = <<>>
    /\ h0 = <<>>
    /\ invoked = <<>>
    /\ model_calls = 0
    /\ outcome = "None"
    /\ error = NoException

\* main(), lines 273-281, on a script run that has to initialize: when
\* initialize_app returns False the script stops (st.stop()), otherwise the
\* history is rendered and the run ends, no chat input having been shown yet.
MainInitialize ==
    /\ pc \in {"Start", "Stopped", "Idle"}
    /\ NeedsInitialize(session)
    /\ \E env \in Environments :
          LET r == initialize_app(env)
          IN  /\ session' = session \cup r.keys
              /\ tools' = IF "tools" \in r.keys THEN r.tools ELSE tools
              /\ tool_by_name' = IF "tool_by_name" \in r.keys
                                 THEN DictByName(r.tools) ELSE tool_by_name
              /\ IF r.ok
                 THEN /\ history' = << SystemMessage(SYSTEM_PROMPT) >>
                      /\ h0' = << SystemMessage(SYSTEM_PROMPT) >>
                      /\ rendered' = render_chat_history(history')
                      /\ pc' = "Idle"
                 ELSE /\ pc' = "Stopped"
                      /\ UNCHANGED <<history, h0, rendered>>
    /\ UNCHANGED <<request, result, cli, turns, first, idx, name, tool_msgs,
                   shown, invoked, model_calls, outcome, error>>

NextStart ==
    \/ MainInitialize
    \/ MainRerun
    \/ MainSubmit
    \/ FirstInvokeFails
    \/ FirstInvokeReturns
    \/ DispatchCall
    \/ ToolHangs
    \/ ExtendHistory
    \/ FinalInvokeFails
    \/ FinalInvokeReturns

SpecStart == InitStart /\ [][NextStart]_vars

(* ---------------------- calls to the tool servers --------------------- *)

\* _as_number(x) is called.
CallAsNumber ==
    /\ \E x \in Inputs :
          /\ request' = [fn |-> "_as_number", args |-> << x >>]
          /\ result' = as_number(x)
    /\ UNCHANGED <<history, tool_by_name, tools, session, cli, pc, turns, first,
                   idx, name, tool_msgs, rendered, shown, h0, invoked,
                   model_calls, outcome, error>>

\* divide(a, b) is called.
CallDivide ==
    /\ \E a \in Inputs, b \in Inputs :
          /\ request' = [fn |-> "divide", args |-> << a, b >>]
          /\ result' = divide(a, b)
    /\ UNCHANGED <<history, tool_by_name, tools, session, cli, pc, turns, first,
                   idx, name, tool_msgs, rendered, shown, h0, invoked,
                   model_calls, outcome, error>>

\* roll_dice(rolls) of the demo server (main.py) is called.
CallRollDice ==
    /\ \E rolls \in 0..MaxRolls :
          \E draws \in Draws(rolls) :
             /\ request' = [fn |-> "roll_dice", args |-> << Integer(rolls) >>]
             /\ result' = roll_dice(rolls, draws)
    /\ UNCHANGED <<history, tool_by_name, tools, session, cli, pc, turns, first,
                   idx, name, tool_msgs, rendered, shown, h0, invoked,
                   model_calls, outcome, error>>

NextServer ==
    \/ CallAsNumber
    \/ CallDivide
    \/ CallRollDice

SpecServer == Init /\ [][NextServer]_vars

(* ------------------------ a run of the CLI client --------------------- *)

\* The variables of the Streamlit session, which a run of the client leaves
\* alone.
app_vars ==
    <<history, tool_by_name, tools, session, request, result, pc, turns, first,
      idx, name, tool_msgs, rendered, shown, h0, invoked, model_calls, outcome,
      error>>

\* The prompt client1.main is called with.
Prompt == CHOOSE text \in UserTexts : TRUE

\* client1.py lines 82-137: main(prompt) is called; the tools are discovered
\* and the registry named_tools is built (line 119) as the one of app.py.
ClientStart ==
    /\ cli.pc = "Off"
    /\ cli' = [cli EXCEPT !.pc = "AwaitFirst"]
    /\ UNCHANGED app_vars

\* client1.py line 140 raises: the outer handler raises it again.
ClientFirstInvokeFails ==
    /\ cli.pc = "AwaitFirst"
    /\ cli' = [cli EXCEPT !.pc = "Raised", !.raised = ModelError]
    /\ UNCHANGED app_vars

\* client1.py lines 140-149: the first response; without tool calls its
\* content is returned, with tool calls the loop begins.
ClientFirstInvokeReturns ==
    /\ cli.pc = "AwaitFirst"
    /\ \E resp \in FirstResponses(MaxToolCalls, MapArgs \cup StrArgs) :
          cli' = [cli EXCEPT !.response = resp,
                             !.pc = IF resp.tool_calls = <<>> THEN "Returned"
                                    ELSE "Dispatch"]
    /\ UNCHANGED app_vars

\* client1.py lines 151-181: one iteration of the loop, the tool doing out
\* if it is invoked.
ClientDispatchCall ==
    /\ cli.pc = "Dispatch"
    /\ cli.idx <= Len(cli.response.tool_calls)
    /\ \E out \in ToolOutcomes :
          LET r == ClientHandleCall(cli.response.tool_calls[cli.idx], cli.idx,
                                    cli.tool_name, cli.tool_id, tool_by_name, out)
          IN  cli' = [cli EXCEPT
                        !.tool_name = r.name,
                        !.tool_id = r.id,
                        !.invoked = cli.invoked \o r.calls,
                        !.outs = Append(cli.outs, out),
                        !.raised = r.raised,
                        !.tool_messages = cli.tool_messages \o r.msgs,
                        !.idx = IF r.raised # NoException THEN cli.idx
                                ELSE cli.idx + 1,
                        !.pc = IF r.raised # NoException THEN "Raised"
                               ELSE "Dispatch"]
    /\ UNCHANGED app_vars

\* client1.py line 184: the loop is over; the messages for the final
\* invocation are put together.
ClientBuildMessages ==
    /\ cli.pc = "Dispatch"
    /\ cli.idx > Len(cli.response.tool_calls)
    /\ cli' = [cli EXCEPT
                 !.messages = << HumanMessage(Prompt), cli.response >>
                                 \o cli.tool_messages,
                 !.pc = "AwaitFinal"]
    /\ UNCHANGED app_vars

\* client1.py line 188 raises: the outer handler raises it again.
ClientFinalInvokeFails ==
    /\ cli.pc = "AwaitFinal"
    /\ cli' = [cli EXCEPT !.pc = "Raised", !.raised = ModelError]
    /\ UNCHANGED app_vars

\* client1.py lines 188-191: the content of the final response is returned.
ClientFinalInvokeReturns ==
    /\ cli.pc = "AwaitFinal"
    /\ cli' = [cli EXCEPT !.pc = "Returned"]
    /\ UNCHANGED app_vars

NextClient ==
    \/ ClientStart
    \/ ClientFirstInvokeFails
    \/ ClientFirstInvokeReturns
    \/ ClientDispatchCall
    \/ ClientBuildMessages
    \/ ClientFinalInvokeFails
    \/ ClientFinalInvokeReturns

SpecClient == Init /\ [][NextClient]_vars

(* ------------------ one turn, over every request shape ---------------- *)

\* The state of the first turn on entering the tool loop (line 215), the
\* first response carrying requests whose args are mappings or strings.
InitTurn ==
    /\ \E text \in UserTexts :
        \E resp \in FirstResponses(MaxToolCalls, MapArgs \cup StrArgs) :
          /\ resp.tool_calls # <<>>
          /\ first = resp
          /\ shown = << Drawn("user", text, <<>>) >>
          /\ history = AppendMsg(AppendMsg(<< SystemMessage(SYSTEM_PROMPT) >>,
                                          HumanMessage(text)), resp)
    /\ tools = << Tool("add", "maths") >>
    /\ tool_by_name = DictByName(tools)
    /\ session = AllKeys
    /\ request = NoRequest
    /\ result = NoResult
    /\ cli = ClientOff
    /\ pc = "Dispatch"
    /\ turns = 1
    /\ idx = 1
    /\ name = Unbound
    /\ tool_msgs = <<>>
    /\ rendered = render_chat_history(<< SystemMessage(SYSTEM_PROMPT) >>)
    /\ h0 = << SystemMessage(SYSTEM_PROMPT) >>
    /\ invoked = <<>>
    /\ model_calls = 1
    /\ outcome = "None"
    /\ error = NoException

NextTurn ==
    \/ DispatchCall
    \/ ExtendHistory
    \/ FinalInvokeFails
    \/ FinalInvokeReturns
    \/ MainRerun

SpecTurn == InitTurn /\ [][NextTurn]_vars

(* ------------------------------ the claims ---------------------------- *)

\* process_user_message has returned.
TurnOver == pc = "Idle" /\ turns > 0

\* The first response arrived and carries no tool calls / carries some.
ReplyTurn == first.type = "AI" /\ first.tool_calls = <<>>
ToolTurn == first.type = "AI" /\ first.tool_calls # <<>>

\* What the turn has appended to the history so far.
Appended == SubSeq(history, Len(h0) + 1, Len(history))

\* h is a prefix of g.
IsPrefix(h, g) == Len(h) <= Len(g) /\ SubSeq(g, 1, Len(h)) = h

\* The k-th request of the first response names a served tool.
Resolves(k) ==
    /\ "name" \in DOMAIN first.tool_calls[k]
    /\ first.tool_calls[k].name \in DOMAIN tool_by_name

\* The invocations made for the k-th request.
InvokedAt(k) == SelectSeq(invoked, LAMBDA c : c.pos = k)

\* A tool message that reports an error of the given kind.
IsError(m, kind) ==
    /\ "error" \in DOMAIN m.content.json
    /\ m.content.json.error.kind = kind

\* C1: when the first response carries N >= 1 tool calls and both model
\* invocations return, the turn appends the Human message, the response, N
\* tool messages whose ids are the ids of the N requests in request order,
\* and one final AI message without tool calls.
C1_ToolTurnAppendsResultsInOrder ==
    (TurnOver /\ ToolTurn /\ error # ModelError) =>
        LET n == Len(first.tool_calls) IN
        /\ Len(Appended) = n + 3
        /\ Appended[1].type = "Human"
        /\ Appended[2] = first
        /\ \A k \in 1..n :
              /\ Appended[2 + k].type = "Tool"
              /\ "id" \in DOMAIN first.tool_calls[k]
              /\ Appended[2 + k].tool_call_id = first.tool_calls[k].id
        /\ Appended[n + 3].type = "AI"
        /\ Appended[n + 3].tool_calls = <<>>

\* C2: when the first response carries no tool calls, the turn appends the
\* Human message and that response, nothing else, and ends Done after one
\* model invocation and no tool invocation.
C2_ReplyTurnAppendsUserAndAssistant ==
    ReplyTurn =>
        /\ pc = "Idle"
        /\ outcome = "Done"
        /\ model_calls = 1
        /\ invoked = <<>>
        /\ IsPrefix(h0, history)
        /\ Len(Appended) = 2
        /\ Appended[1].type = "Human"
        /\ Appended[2].type = "AI"
        /\ Appended[2] = first

C2_Witness ==
    /\ TurnOver
    /\ ReplyTurn
    /\ turns = 2
    /\ Len(history) >= 4

\* C3: after a turn that a model invocation failed, the history is the
\* history as it was before the turn.
C3_FailedTurnLeavesHistoryAsBefore ==
    (TurnOver /\ error = ModelError) => history = h0

\* C4: whatever goes wrong while a request is handled, the loop handles
\* every request, each leaves one tool message, and the turn goes on to the
\* final model invocation.
C4_ToolErrorsNeverAbortTheTurn ==
    (TurnOver /\ ToolTurn) =>
        /\ Len(tool_msgs) = Len(first.tool_calls)
        /\ model_calls = 2
        /\ error \in {NoException, ModelError}

\* The positions of h that hold a tool message.
ToolPositions(h) == { i \in 1..Len(h) : h[i].type = "Tool" }

\* The position of the nearest AI message before position i of h (0: none).
RECURSIVE NearestAI(_, _)
NearestAI(h, i) ==
    IF i <= 1 THEN 0
    ELSE IF h[i - 1].type = "AI" THEN i - 1
    ELSE NearestAI(h, i - 1)

\* C5: in every state, every tool message of the history carries the id of
\* a request of the nearest AI message before it, and only tool messages
\* lie between the two.
C5_ToolResultsMatchPrecedingAssistant ==
    \A i \in ToolPositions(history) :
        LET j == NearestAI(history, i) IN
        /\ j > 0
        /\ \A m \in (j + 1)..i : history[m].type = "Tool"
        /\ \E k \in 1..Len(history[j].tool_calls) :
              /\ "id" \in DOMAIN history[j].tool_calls[k]
              /\ history[j].tool_calls[k].id = history[i].tool_call_id

\* A tool turn that ended Done after a turn that the tool loop aborted.
C5_Witness ==
    /\ TurnOver
    /\ outcome = "Done"
    /\ ToolPositions(history) # {}
    /\ \E j \in 1..(Len(history) - 1) :
          /\ history[j].type = "AI"
          /\ history[j].tool_calls # <<>>
          /\ history[j + 1].type = "Human"

\* The k-th request names a tool and carries an id, and the registry does
\* not serve the name.
UnknownTool(k) ==
    /\ "name" \in DOMAIN first.tool_calls[k]
    /\ "id" \in DOMAIN first.tool_calls[k]
    /\ first.tool_calls[k].name \notin DOMAIN tool_by_name

\* C6: when a request names a tool the registry does not serve (and both
\* model invocations return), the request leaves a tool message with its id
\* that reports the name as not found, and the turn ends Done with the
\* final reply appended.
C6_UnknownToolStillReachesDone ==
    (TurnOver /\ ToolTurn /\ error # ModelError) =>
        \A k \in 1..Len(first.tool_calls) :
            UnknownTool(k) =>
                /\ outcome = "Done"
                /\ Len(tool_msgs) = Len(first.tool_calls)
                /\ tool_msgs[k] = ToolMessage(first.tool_calls[k].id,
                                     ErrorContent(NotFoundMsg(first.tool_calls[k].name)))
                /\ history[Len(history)].type = "AI"
                /\ history[Len(history)].tool_calls = <<>>

\* C7: the tool message of a request reports "not found" exactly when the
\* request's name does not resolve, and then no tool was invoked for it; an
\* error a resolved tool raises is never reported as "not found".
C7_ErrorKindIdentifiesCause ==
    \A k \in 1..Len(tool_msgs) :
        /\ IsError(tool_msgs[k], "not found") <=> ~Resolves(k)
        /\ ~Resolves(k) => InvokedAt(k) = <<>>

\* The loop has run its iteration for the k-th request: it went on to the
\* next request, or an exception left the loop there.
AbortedAt(k) == k = idx /\ pc = "Idle" /\ error \notin {NoException, ModelError}
Handled(k) == k < idx \/ AbortedAt(k)

\* The k-th request names a served tool and carries its args as a string.
StringCall(k) ==
    /\ k \in 1..Len(first.tool_calls)
    /\ Resolves(k)
    /\ "args" \in DOMAIN first.tool_calls[k]
    /\ first.tool_calls[k].args.t = "str"

\* The one invocation of the k-th request's tool with args a.
OneCall(k, a) ==
    << [pos |-> k, tool |-> first.tool_calls[k].name,
        impl |-> tool_by_name[first.tool_calls[k].name], args |-> a] >>

\* C8 as claimed: a string that decodes to a mapping reaches the tool as
\* the mapping; a string that does not decode reaches the tool, once, as
\* the string itself; the decode failure does not end the turn.
C8_StringArgsDecodedOrPassedRaw ==
    \A k \in 1..Len(first.tool_calls) :
        (Handled(k) /\ StringCall(k)) =>
            LET tc == first.tool_calls[k]
                d == json_loads(tc.args.v)
            IN  /\ (d.ok /\ d.value.t = "map") => InvokedAt(k) = OneCall(k, d.value)
                /\ ~d.ok => InvokedAt(k) = OneCall(k, tc.args)
                /\ AbortedAt(k) => "id" \notin DOMAIN tc

\* C8 as amended: the same for a string that is not empty; the empty
\* string reaches the tool, once, as the empty mapping.
C8_NonEmptyStringArgsDecodedOrPassedRaw ==
    \A k \in 1..Len(first.tool_calls) :
        (Handled(k) /\ StringCall(k)) =>
            LET tc == first.tool_calls[k]
                d == json_loads(tc.args.v)
            IN  /\ (d.ok /\ d.value.t = "map") => InvokedAt(k) = OneCall(k, d.value)
                /\ (~d.ok /\ tc.args.v # "") => InvokedAt(k) = OneCall(k, tc.args)
                /\ tc.args.v = "" => InvokedAt(k) = OneCall(k, EmptyMap)
                /\ AbortedAt(k) => "id" \notin DOMAIN tc

\* A turn that ended Done after a served tool was invoked with a string
\* that does not decode, and another with the mapping a string decoded to.
C8_Witness ==
    /\ TurnOver
    /\ outcome = "Done"
    /\ Len(first.tool_calls) = 2
    /\ StringCall(1)
    /\ StringCall(2)
    /\ first.tool_calls[1].args = Str("oops")
    /\ first.tool_calls[2].args = Str("{a:25,b:17}")
    /\ InvokedAt(1) = OneCall(1, Str("oops"))
    /\ InvokedAt(2) = OneCall(2, Map("a=25,b=17"))

\* The positions of h whose message is a Human message or an AI message
\* without tool calls.
Visible(h) ==
    { i \in 1..Len(h) :
        \/ h[i].type = "Human"
        \/ h[i].type = "AI" /\ h[i].tool_calls = <<>> }

\* r lists the members of S in increasing order, each once.
ListsInOrder(r, S) ==
    /\ { r[n] : n \in 1..Len(r) } = S
    /\ \A m, n \in 1..Len(r) : m < n => r[m] < r[n]

\* C9: in every state, render_chat_history draws exactly the Human messages
\* and the AI messages without tool calls, in history order (so no System
\* message, no tool message and no AI message with tool calls); what the
\* last render drew is of these kinds; and no AI message with tool calls is
\* drawn live as the reply.
C9_RenderShowsOnlyUserAndFinalReplies ==
    /\ ListsInOrder(render_chat_history(history), Visible(history))
    /\ \A n \in 1..Len(rendered) : rendered[n] \in Visible(history)
    /\ \A n \in 1..Len(shown) : shown[n].tool_calls = <<>>

\* The history of a finished tool turn, with tool messages and an AI message
\* with tool calls, was rendered, the reply having been drawn live.
C9_Witness ==
    /\ TurnOver
    /\ outcome = "Done"
    /\ ToolTurn
    /\ ToolPositions(history) # {}
    /\ rendered = render_chat_history(history)
    /\ Len(rendered) = 2
    /\ Len(shown) = 2
    /\ shown[2].role = "assistant"

\* C10: every step leaves the history as it was or appends to it, and the
\* first message is always the System message of initialize_app.
C10_HistoryIsAppendOnly ==
    /\ [](history[1] = SystemMessage(SYSTEM_PROMPT))
    /\ [][IsPrefix(history, history')]_vars

\* Two turns, the first failed, have both appended to the history.
C10_Witness ==
    /\ TurnOver
    /\ turns = 2
    /\ outcome = "Done"
    /\ Len(history) > Len(h0) + 2
    /\ Len(h0) > 1
    /\ h0[Len(h0)].type = "Human"

\* C11: a tool call that never returns does not stall the turn: while the
\* script run waits in a tool invocation a step remains possible, the one
\* that ends the bounded wait and resolves the call to an error result.
C11_HungCallDoesNotStallTheTurn == pc = "InTool" => ENABLED Next

\* The keys the script has to find before it handles a chat input.
Startable(env) ==
    /\ env.config = "loaded"
    /\ env.api_key
    /\ env.servers = "enabled"
    /\ env.discovery.ok

\* C12: no turn runs in a session that initialize_app has not started: while
\* "initialized" is not set the script is at its start or stopped, no chat
\* input has been handled and the history is not set; and a run of
\* initialize_app then returns False and sets neither "initialized" nor
\* "history" whenever the configuration does not load or validate, the API
\* key is missing, no server is enabled or the discovery fails.  A stopped
\* script has not set "initialized".
C12_NoTurnUnlessInitialized ==
    /\ "initialized" \notin session =>
          /\ pc \in {"Start", "Stopped"}
          /\ turns = 0
          /\ "history" \notin session
          /\ history = <<>>
          /\ shown = <<>>
          /\ \A env \in Environments :
                ~Startable(env) =>
                    /\ ~initialize_app(env).ok
                    /\ initialize_app(env).keys
                           \cap {"initialized", "history"} = {}
    /\ pc = "Stopped" => "initialized" \notin session

\* The script stopped after a start that got as far as the discovery.
C12_Witness ==
    /\ pc = "Stopped"
    /\ session = {"llm", "client"}
    /\ history = <<>>
    /\ turns = 0

\* From position i on, h holds complete turns only: a Human message and an AI
\* reply, or a Human message, an AI message with tool calls, one tool message
\* for each call and an AI reply.
RECURSIVE CompleteTurnsFrom(_, _)
CompleteTurnsFrom(h, i) ==
    IF i > Len(h) THEN TRUE
    ELSE IF i + 1 > Len(h) THEN FALSE
    ELSE IF h[i].type # "Human" \/ h[i + 1].type # "AI" THEN FALSE
    ELSE IF h[i + 1].tool_calls = <<>> THEN CompleteTurnsFrom(h, i + 2)
    ELSE LET n == Len(h[i + 1].tool_calls)
         IN  /\ i + n + 2 <= Len(h)
             /\ \A k \in 1..n : h[i + 1 + k].type = "Tool"
             /\ h[i + n + 2].type = "AI"
             /\ h[i + n + 2].tool_calls = <<>>
             /\ CompleteTurnsFrom(h, i + n + 3)

\* C13: whenever render_chat_history can read the history (main is between
\* turns), the history is the System message followed by complete turns only.
C13_RenderSeesCompleteTurnsOnly ==
    pc = "Idle" =>
        /\ history[1].type = "System"
        /\ CompleteTurnsFrom(history, 2)

\* A number a float can hold, and its value.
IsNumber(x) == x.t \in {"int", "float"}
ValueOf(x) == IF x.t = "int" THEN Float(x.v, 1) ELSE x

\* q is the quotient of x by y: q * y = x.
IsQuotient(q, x, y) == q.t = "float" /\ q.d # 0 /\ q.n * y.n * x.d = x.n * y.d * q.d

\* C14: divide(a, b) with b zero returns positive infinity without raising,
\* whatever a is (zero included); with numbers a and b, b not zero, it
\* returns a / b.
C14_DivideByZeroGivesInfinity ==
    request.fn = "divide" =>
        LET a == request.args[1]
            b == request.args[2]
        IN  /\ (IsNumber(b) /\ ValueOf(b).n = 0) => result = Returned(Inf)
            /\ (IsNumber(a) /\ IsNumber(b) /\ ValueOf(b).n # 0) =>
                   /\ result.raised = ""
                   /\ IsQuotient(result.value, ValueOf(a), ValueOf(b))

\* divide(0, 0) has returned infinity.
C14_Witness ==
    /\ request = [fn |-> "divide", args |-> << Integer(0), Integer(0) >>]
    /\ result = Returned(Inf)

\* The strings that denote a number, and the number each denotes.
NumericStrings == {"42", "  10.5  ", "0", " -4"}
Denoted(s) ==
    CASE s = "42" -> Float(42, 1)
      [] s = "  10.5  " -> Float(21, 2)
      [] s = "0" -> Float(0, 1)
      [] s = " -4" -> Float(-4, 1)

\* C15 as stated: _as_number never raises; for a number (an int of any size
\* or a float) and for a string that denotes a number it returns a float,
\* the value of the input where a float holds it; for every other input it
\* returns None.
C15_AsNumberConvertsEveryNumber ==
    request.fn = "_as_number" =>
        LET x == request.args[1]
        IN  /\ result.raised = ""
            /\ IF x.t \in {"int", "bigint", "float"}
               THEN /\ result.value.t = "float"
                    /\ IsNumber(x) => result.value = ValueOf(x)
               ELSE IF x.t = "str" /\ x.s \in NumericStrings
                    THEN result.value = Denoted(x.s)
                    ELSE result.value = NoneValue

\* C15: _as_number never raises; for a number a float can hold and for a
\* string that denotes a number it returns that number as a float; for every
\* other input, an int beyond the range of a float included, it returns
\* None.
C15_AsNumberConvertsWhatAFloatHolds ==
    request.fn = "_as_number" =>
        LET x == request.args[1]
        IN  /\ result.raised = ""
            /\ IF IsNumber(x) THEN result.value = ValueOf(x)
               ELSE IF x.t = "str" /\ x.s \in NumericStrings
                    THEN result.value = Denoted(x.s)
                    ELSE result.value = NoneValue

\* _as_number was called with an int beyond the range of a float and
\* returned None.
C15_Witness ==
    /\ request = [fn |-> "_as_number", args |-> << BigInt >>]
    /\ result = Returned(NoneValue)

\* C16: the final model invocation (due when pc = "AwaitFinal", made when the
\* turn has invoked the model twice) finds in the history, after the
\* tool-call AI message, one tool message for each call of the batch, in
\* request order and carrying the id of its call.
C16_FinalInvocationAfterAllResults ==
    (pc = "AwaitFinal" \/ model_calls = 2) =>
        LET n == Len(first.tool_calls)
        IN  /\ ToolTurn
            /\ idx = n + 1
            /\ Len(tool_msgs) = n
            /\ Len(Appended) >= n + 2
            /\ Appended[2] = first
            /\ \A k \in 1..n :
                  /\ Appended[2 + k].type = "Tool"
                  /\ "id" \in DOMAIN first.tool_calls[k]
                  /\ Appended[2 + k].tool_call_id = first.tool_calls[k].id
                  /\ Appended[2 + k] = tool_msgs[k]

\* The final invocation is due after a batch of two calls, the first of which
\* failed, and both results are in the history.
C16_Witness ==
    /\ pc = "AwaitFinal"
    /\ Len(first.tool_calls) = 2
    /\ Len(history) = Len(h0) + 4
    /\ IsError(history[Len(history) - 1], "Error executing tool")
    /\ "error" \notin DOMAIN history[Len(history)].content.json

\* C17: a turn invokes the model once when the first response carries no
\* tool calls and twice when it carries some, never more; and each call of
\* the batch is dispatched at most once.
C17_OneToolRoundNoRetries ==
    /\ model_calls <= 2
    /\ \A k \in 1..Len(first.tool_calls) : Len(InvokedAt(k)) <= 1
    /\ Len(invoked) <= Len(first.tool_calls)
    /\ TurnOver =>
          /\ ReplyTurn => (model_calls = 1 /\ invoked = <<>>)
          /\ ToolTurn => model_calls = 2
          /\ first = NoResponse => model_calls = 1

\* C18: once the session is started no step changes the tool registry.
C18_TurnsLeaveRegistryUnchanged ==
    [][ "initialized" \in session => tool_by_name' = tool_by_name ]_vars

\* Two turns are over, the last with a dispatched batch, in a session whose
\* registry holds a tool.
C18_Witness ==
    /\ TurnOver
    /\ turns = 2
    /\ ToolTurn
    /\ invoked # <<>>
    /\ outcome = "Done"
    /\ DOMAIN tool_by_name = {"add"}

\* C19: a first response without tool calls whose text is empty or absent is
\* a reply: the turn ends Done without an error, has appended the Human
\* message and this response and nothing else, and has shown the empty text.
C19_EmptyReplyCompletesTheTurn ==
    (TurnOver /\ ReplyTurn /\ first.content \in {"", None}) =>
        /\ outcome = "Done"
        /\ error = NoException
        /\ Len(Appended) = 2
        /\ Appended[1].type = "Human"
        /\ Appended[2] = first
        /\ model_calls = 1
        /\ shown[Len(shown)] = Drawn("assistant", "", <<>>)

\* A turn whose first response had no text and no tool calls is over.
C19_Witness ==
    /\ TurnOver
    /\ ReplyTurn
    /\ first.content = None
    /\ outcome = "Done"
    /\ Len(shown) = 2

\* The positions of ts that hold a tool named n.
Named(ts, n) == { i \in 1..Len(ts) : ts[i].name = n }

\* The tool named n that was discovered last.
LastNamed(ts, n) == ts[CHOOSE i \in Named(ts, n) : \A j \in Named(ts, n) : j <= i]

\* C20: the registry holds exactly the names discovered, each with the tool
\* discovered last under that name, and every invocation of a turn is made
\* to the tool discovered last under the name requested.
C20_RegistryKeepsLastToolPerName ==
    /\ DOMAIN tool_by_name = { tools[i].name : i \in 1..Len(tools) }
    /\ \A n \in DOMAIN tool_by_name : tool_by_name[n] = LastNamed(tools, n)
    /\ \A c \in 1..Len(invoked) :
          /\ invoked[c].tool \in DOMAIN tool_by_name
          /\ invoked[c].impl = LastNamed(tools, invoked[c].tool)

\* Two tools of one name were discovered and the second was invoked.
C20_Witness ==
    /\ Len(tools) = 2
    /\ tools[1].name = tools[2].name
    /\ tools[1] # tools[2]
    /\ invoked # <<>>
    /\ invoked[1].impl = tools[2]
    /\ outcome = "Done"

\* app.py lines 216-253: the loop of process_user_message over the batch
\* calls from position k on, the tool invoked for request j doing outs[j];
\* acc is what the loop has produced so far, nm the local `name`.
RECURSIVE AppLoop(_, _, _, _, _, _)
AppLoop(calls, reg, outs, k, nm, acc) ==
    IF k > Len(calls) \/ k > Len(outs) THEN acc
    ELSE LET r == HandleCall(calls[k], k, nm, reg, outs[k])
         IN  IF r.raised # NoException
             THEN [raised |-> r.raised, msgs |-> acc.msgs,
                   calls |-> acc.calls \o r.calls]
             ELSE AppLoop(calls, reg, outs, k + 1, r.name,
                          [raised |-> NoException, msgs |-> acc.msgs \o r.msgs,
                           calls |-> acc.calls \o r.calls])

\* What process_user_message does with the batch the client was given, the
\* tools doing what they did for the client.
AppDispatch ==
    AppLoop(cli.response.tool_calls, tool_by_name, cli.outs, 1, Unbound,
            [raised |-> NoException, msgs |-> <<>>, calls |-> <<>>])

\* The messages after the System message that process_user_message feeds
\* the final model invocation (app.py lines 197, 211, 255 and 258).
AppFinalInput(text, resp, ms) ==
    Tail(ExtendMsgs(AppendMsg(AppendMsg(<< SystemMessage(SYSTEM_PROMPT) >>,
                                        HumanMessage(text)), resp), ms))

\* The loop of the client is over, or an exception has left it.
ClientLoopOver ==
    \/ cli.pc = "AwaitFinal"
    \/ cli.pc = "Raised" /\ cli.raised # ModelError

\* C21: for the same first response, the same registry and the same
\* behaviour of the tools, client1.main and process_user_message produce the
\* same tool messages in the same order, invoke the same tools with the same
\* arguments, leave the loop alike, and feed the final model invocation the
\* same Human, tool-call AI and tool messages.
C21_ClientAndAppDispatchAlike ==
    ClientLoopOver =>
        /\ AppDispatch.msgs = cli.tool_messages
        /\ AppDispatch.calls = cli.invoked
        /\ (AppDispatch.raised = NoException) <=> (cli.raised = NoException)
        /\ cli.pc = "AwaitFinal" =>
              cli.messages = AppFinalInput(Prompt, cli.response, AppDispatch.msgs)

\* app.py lines 175-183: what render_chat_history draws for the message m:
\* the role and msg.content.
Replay(m) ==
    IF m.type = "Human" THEN Drawn("user", m.content, <<>>)
    ELSE Drawn("assistant", m.content, m.tool_calls)

\* The positions a rerun draws among the messages the last turn appended.
ReplayOfTurn ==
    SelectSeq(render_chat_history(history), LAMBDA i : i > Len(h0))

\* C22: when a turn has ended Done, what was shown live during the turn (the
\* user text, then one assistant reply) is what render_chat_history draws
\* for the messages of that turn, text by text and in the same order.
C22_LiveDisplayEqualsReplay ==
    (TurnOver /\ outcome = "Done") =>
        /\ Len(shown) = 2
        /\ shown[1].role = "user"
        /\ shown[2].role = "assistant"
        /\ Len(ReplayOfTurn) = Len(shown)
        /\ \A n \in 1..Len(shown) :
              Replay(history[ReplayOfTurn[n]]) = shown[n]

\* C23: roll_dice(rolls), rolls >= 0, returns a list of exactly rolls
\* values, each an integer from 1 to 6.
C23_RollDiceReturnsRollsValues ==
    request.fn = "roll_dice" =>
        /\ result.raised = ""
        /\ result.value.t = "ints"
        /\ Len(result.value.v) = request.args[1].v
        /\ \A i \in 1..Len(result.value.v) : result.value.v[i] \in 1..6

====
